---- MODULE Spec2Model ----
(***************************************************************************)
(* MatLock (src/MatLock.go): a mutex built from a boolean flag `locked`    *)
(* and a one-slot buffered channel `wait`.                                 *)
(*                                                                         *)
(* Goroutines are modelled as threads that interleave at the granularity   *)
(* of the accesses to the shared fields: the read of `locked` in Lock      *)
(* (line 17) and its write (line 18) are separate steps, as are the read   *)
(* (line 26) and the write (line 29) in Unlock.  The channel operations    *)
(* (line 21, lines 31-34) are atomic, as the Go runtime makes them.        *)
(*                                                                         *)
(* A panic (line 27) unwinds the goroutine that raised it: pc[t] = "panic" *)
(* is terminal for t.  MatLock.go has no recover; what happens to the rest *)
(* of the program is decided by the caller, so both outcomes are kept: the *)
(* panic is not recovered and the Go runtime stops the whole program       *)
(* (crashed = TRUE, no thread takes another step), or a deferred recover   *)
(* in the caller catches it and the other threads keep running.            *)
(***************************************************************************)
EXTENDS Integers, FiniteSets, Sequences, TLC

\* ---- bounds of the model ----
NThreads == 3
MaxCalls == 3
MaxMisuse == 1

\* ---- program constant: capacity of make(chan struct{}, 1) ----
WaitCap == 1

Threads == 1..NThreads

VARIABLES
    locked,     \* MatLock.locked
    wait,       \* number of signals buffered in MatLock.wait
    pc,         \* position of every thread
    counter,    \* the shared counter the critical section increments
    tmp,        \* the value a thread read from the counter
    calls,      \* Lock calls the clients have made so far
    misuse,     \* the Unlock call in progress was made without holding
    nmisuse,    \* Unlock calls made without holding so far
    nSignal,    \* Unlock calls that performed their signal step
    nRecv,      \* receives on `wait` that went through
    crashed,    \* an unrecovered panic has stopped the program
    serial,     \* history: no call has yet started while another thread was busy
    ahead,      \* history: the threads that were blocked at the receive when
                \* t called Lock and whose Lock has not returned since
    woken       \* history: t passed the receive and has not re-read locked yet

vars == <<locked, wait, pc, counter, tmp, calls, misuse, nmisuse, nSignal, nRecv, crashed, serial, ahead, woken>>

LockPcs == {"L_check", "L_set", "L_recv"}
CsPcs == {"cs_read", "cs_write", "cs_end"}
UnlockPcs == {"U_check", "U_set", "U_send"}
AllPcs == {"idle", "panic"} \cup LockPcs \cup CsPcs \cup UnlockPcs

\* NewQutex: locked false, empty channel of capacity 1
NewQutex == [locked |-> FALSE, wait |-> 0]

Init ==
    /\ locked = NewQutex.locked
    /\ wait = NewQutex.wait
    /\ pc = [t \in Threads |-> "idle"]
    /\ counter = 0
    /\ tmp = [t \in Threads |-> 0]
    /\ calls = 0
    /\ misuse = [t \in Threads |-> FALSE]
    /\ nmisuse = 0
    /\ nSignal = 0
    /\ nRecv = 0
    /\ crashed = FALSE
    /\ serial = TRUE
    /\ ahead = [t \in Threads |-> {}]
    /\ woken = [t \in Threads |-> FALSE]

\* ---- the channel ----
\* a select that always takes its default branch
TrySend_Drop(w) == w

\* a send that always adds a signal
TrySend_Unbounded(w) == w + 1

\* select { case q.wait <- struct{}{}: default: }  -- send if there is room, else drop
TrySend(w) == IF w < WaitCap THEN w + 1 ELSE w

\* <-q.wait can proceed only when a signal is buffered
CanRecv(w) == w > 0

\* every thread other than t is outside Lock, the critical section and Unlock
OthersIdle(t) == \A u \in Threads \ {t} : pc[u] = "idle"

\* the threads blocked at the receive in Lock
Blocked == {u \in Threads : pc[u] = "L_recv"}

\* ---- Lock ----
\* the client calls q.Lock()
CallLock(t) ==
    /\ ~crashed
    /\ pc[t] = "idle"
    /\ calls < MaxCalls
    /\ calls' = calls + 1
    /\ pc' = [pc EXCEPT ![t] = "L_check"]
    /\ serial' = (serial /\ OthersIdle(t))
    /\ ahead' = [ahead EXCEPT ![t] = Blocked \ {t}]
    /\ UNCHANGED <<locked, wait, counter, tmp, misuse, nmisuse, nSignal, nRecv, crashed, woken>>

\* a check that yields to the threads that blocked before the call
LockCheck_Fifo(t) ==
    /\ ~crashed
    /\ pc[t] = "L_check"
    /\ woken' = [woken EXCEPT ![t] = FALSE]
    /\ pc' = [pc EXCEPT ![t] = IF ~locked /\ ahead[t] = {} THEN "L_set" ELSE "L_recv"]
    /\ UNCHANGED <<locked, wait, counter, tmp, calls, misuse, nmisuse, nSignal, nRecv, crashed, serial, ahead>>

\* if !q.locked { ... } : the read of the flag
LockCheck(t) ==
    /\ ~crashed
    /\ pc[t] = "L_check"
    /\ woken' = [woken EXCEPT ![t] = FALSE]
    /\ pc' = [pc EXCEPT ![t] = IF ~locked THEN "L_set" ELSE "L_recv"]
    /\ UNCHANGED <<locked, wait, counter, tmp, calls, misuse, nmisuse, nSignal, nRecv, crashed, serial, ahead>>

\* an acquisition that also empties the wake channel
LockSet_Drain(t) ==
    /\ ~crashed
    /\ pc[t] = "L_set"
    /\ locked' = TRUE
    /\ wait' = 0
    /\ pc' = [pc EXCEPT ![t] = "cs_read"]
    /\ ahead' = [u \in Threads |-> ahead[u] \ {t}]
    /\ UNCHANGED <<counter, tmp, calls, misuse, nmisuse, nSignal, nRecv, crashed, serial, woken>>

\* q.locked = true; return
LockSet(t) ==
    /\ ~crashed
    /\ pc[t] = "L_set"
    /\ locked' = TRUE
    /\ pc' = [pc EXCEPT ![t] = "cs_read"]
    /\ ahead' = [u \in Threads |-> ahead[u] \ {t}]
    /\ UNCHANGED <<wait, counter, tmp, calls, misuse, nmisuse, nSignal, nRecv, crashed, serial, woken>>

\* a receive after which the thread takes the lock without testing the flag
LockRecv_Enter(t) ==
    /\ ~crashed
    /\ pc[t] = "L_recv"
    /\ CanRecv(wait)
    /\ wait' = wait - 1
    /\ nRecv' = nRecv + 1
    /\ woken' = [woken EXCEPT ![t] = FALSE]
    /\ locked' = TRUE
    /\ pc' = [pc EXCEPT ![t] = "cs_read"]
    /\ ahead' = [u \in Threads |-> ahead[u] \ {t}]
    /\ UNCHANGED <<counter, tmp, calls, misuse, nmisuse, nSignal, crashed, serial>>

\* a receive that takes the signal as the grant of the lock
LockRecv_Grant(t) ==
    /\ ~crashed
    /\ pc[t] = "L_recv"
    /\ CanRecv(wait)
    /\ wait' = wait - 1
    /\ nRecv' = nRecv + 1
    /\ woken' = [woken EXCEPT ![t] = TRUE]
    /\ pc' = [pc EXCEPT ![t] = "L_set"]
    /\ UNCHANGED <<locked, counter, tmp, calls, misuse, nmisuse, nSignal, crashed, serial, ahead>>

\* a receive that wakes up but leaves the signal in the channel
LockRecv_Peek(t) ==
    /\ ~crashed
    /\ pc[t] = "L_recv"
    /\ CanRecv(wait)
    /\ wait' = wait
    /\ nRecv' = nRecv + 1
    /\ woken' = [woken EXCEPT ![t] = TRUE]
    /\ pc' = [pc EXCEPT ![t] = "L_check"]
    /\ UNCHANGED <<locked, counter, tmp, calls, misuse, nmisuse, nSignal, crashed, serial, ahead>>

\* <-q.wait, then back to the top of the for loop
LockRecv(t) ==
    /\ ~crashed
    /\ pc[t] = "L_recv"
    /\ CanRecv(wait)
    /\ wait' = wait - 1
    /\ nRecv' = nRecv + 1
    /\ woken' = [woken EXCEPT ![t] = TRUE]
    /\ pc' = [pc EXCEPT ![t] = "L_check"]
    /\ UNCHANGED <<locked, counter, tmp, calls, misuse, nmisuse, nSignal, crashed, serial, ahead>>

\* ---- the critical section: a non-atomic increment of the shared counter ----
CsRead(t) ==
    /\ ~crashed
    /\ pc[t] = "cs_read"
    /\ tmp' = [tmp EXCEPT ![t] = counter]
    /\ pc' = [pc EXCEPT ![t] = "cs_write"]
    /\ UNCHANGED <<locked, wait, counter, calls, misuse, nmisuse, nSignal, nRecv, crashed, serial, ahead, woken>>

CsWrite(t) ==
    /\ ~crashed
    /\ pc[t] = "cs_write"
    /\ counter' = tmp[t] + 1
    /\ tmp' = [tmp EXCEPT ![t] = 0]
    /\ pc' = [pc EXCEPT ![t] = "cs_end"]
    /\ UNCHANGED <<locked, wait, calls, misuse, nmisuse, nSignal, nRecv, crashed, serial, ahead, woken>>

\* ---- Unlock ----
\* the client calls q.Unlock() after its own Lock returned
CallUnlock(t) ==
    /\ ~crashed
    /\ pc[t] = "cs_end"
    /\ pc' = [pc EXCEPT ![t] = "U_check"]
    /\ ahead' = [ahead EXCEPT ![t] = {}]
    /\ UNCHANGED <<locked, wait, counter, tmp, calls, misuse, nmisuse, nSignal, nRecv, crashed, serial, woken>>

\* a check that lets the call through whatever the flag holds
UnlockCheck_NoPanic(t) ==
    /\ ~crashed
    /\ pc[t] = "U_check"
    /\ pc' = [pc EXCEPT ![t] = "U_set"]
    /\ UNCHANGED <<locked, wait, counter, tmp, calls, misuse, nmisuse, nSignal, nRecv, crashed, serial, ahead, woken>>

\* if !q.locked { panic("unlock of unlocked qutex") }
UnlockCheck(t) ==
    /\ ~crashed
    /\ pc[t] = "U_check"
    /\ IF ~locked
         THEN /\ pc' = [pc EXCEPT ![t] = "panic"]
              /\ crashed' \in BOOLEAN
         ELSE /\ pc' = [pc EXCEPT ![t] = "U_set"]
              /\ crashed' = crashed
    /\ UNCHANGED <<locked, wait, counter, tmp, calls, misuse, nmisuse, nSignal, nRecv, serial, ahead, woken>>

\* an Unlock that leaves the flag as it is
UnlockSet_NoClear(t) ==
    /\ ~crashed
    /\ pc[t] = "U_set"
    /\ locked' = locked
    /\ pc' = [pc EXCEPT ![t] = "U_send"]
    /\ UNCHANGED <<wait, counter, tmp, calls, misuse, nmisuse, nSignal, nRecv, crashed, serial, ahead, woken>>

\* q.locked = false
UnlockSet(t) ==
    /\ ~crashed
    /\ pc[t] = "U_set"
    /\ locked' = FALSE
    /\ pc' = [pc EXCEPT ![t] = "U_send"]
    /\ UNCHANGED <<wait, counter, tmp, calls, misuse, nmisuse, nSignal, nRecv, crashed, serial, ahead, woken>>

\* an Unlock that returns without attempting the signal
UnlockSend_Skip(t) ==
    /\ ~crashed
    /\ pc[t] = "U_send"
    /\ wait' = wait
    /\ pc' = [pc EXCEPT ![t] = "idle"]
    /\ nSignal' = nSignal + 1
    /\ misuse' = [misuse EXCEPT ![t] = FALSE]
    /\ UNCHANGED <<locked, counter, tmp, calls, nmisuse, nRecv, crashed, serial, ahead, woken>>

\* a send that waits for room in the channel instead of dropping the signal
UnlockSend_Blocking(t) ==
    /\ ~crashed
    /\ pc[t] = "U_send"
    /\ wait < WaitCap
    /\ wait' = wait + 1
    /\ nSignal' = nSignal + 1
    /\ pc' = [pc EXCEPT ![t] = "idle"]
    /\ misuse' = [misuse EXCEPT ![t] = FALSE]
    /\ UNCHANGED <<locked, counter, tmp, calls, nmisuse, nRecv, crashed, serial, ahead, woken>>

\* the non-blocking send, then return
UnlockSend(t) ==
    /\ ~crashed
    /\ pc[t] = "U_send"
    /\ wait' = TrySend(wait)
    /\ pc' = [pc EXCEPT ![t] = "idle"]
    /\ nSignal' = nSignal + 1
    /\ misuse' = [misuse EXCEPT ![t] = FALSE]
    /\ UNCHANGED <<locked, counter, tmp, calls, nmisuse, nRecv, crashed, serial, ahead, woken>>

\* a client that calls q.Unlock() without holding the lock
MisuseUnlock(t) ==
    /\ ~crashed
    /\ pc[t] = "idle"
    /\ nmisuse < MaxMisuse
    /\ pc' = [pc EXCEPT ![t] = "U_check"]
    /\ misuse' = [misuse EXCEPT ![t] = TRUE]
    /\ nmisuse' = nmisuse + 1
    /\ serial' = (serial /\ OthersIdle(t))
    /\ UNCHANGED <<locked, wait, counter, tmp, calls, nSignal, nRecv, crashed, ahead, woken>>

\* ---- Lock and Unlock with the test and the write of the flag in one step ----
\* if !q.locked { q.locked = true; return } as one atomic step
LockAtomic(t) ==
    /\ ~crashed
    /\ pc[t] = "L_check"
    /\ woken' = [woken EXCEPT ![t] = FALSE]
    /\ IF ~locked
         THEN /\ locked' = TRUE
              /\ pc' = [pc EXCEPT ![t] = "cs_read"]
              /\ ahead' = [u \in Threads |-> ahead[u] \ {t}]
         ELSE /\ pc' = [pc EXCEPT ![t] = "L_recv"]
              /\ UNCHANGED <<locked, ahead>>
    /\ UNCHANGED <<wait, counter, tmp, calls, misuse, nmisuse, nSignal, nRecv, crashed, serial>>

\* if !q.locked { panic(...) }; q.locked = false as one atomic step
UnlockAtomic(t) ==
    /\ ~crashed
    /\ pc[t] = "U_check"
    /\ IF ~locked
         THEN /\ pc' = [pc EXCEPT ![t] = "panic"]
              /\ crashed' \in BOOLEAN
              /\ locked' = locked
         ELSE /\ pc' = [pc EXCEPT ![t] = "U_send"]
              /\ crashed' = crashed
              /\ locked' = FALSE
    /\ UNCHANGED <<wait, counter, tmp, calls, misuse, nmisuse, nSignal, nRecv, serial, ahead, woken>>

\* ---- specifications ----
LockStep(t) == CallLock(t) \/ LockCheck(t) \/ LockSet(t) \/ LockRecv(t)
CsStep(t) == CsRead(t) \/ CsWrite(t)
UnlockStep(t) == UnlockCheck(t) \/ UnlockSet(t) \/ UnlockSend(t)
Step(t) == LockStep(t) \/ CsStep(t) \/ CallUnlock(t) \/ UnlockStep(t)

Next == \E t \in Threads : Step(t)

\* threads that call Unlock only after their own Lock returned
Spec == Init /\ [][Next]_vars

\* the same, every thread scheduled fairly
FairSpec == Spec /\ \A t \in Threads : WF_vars(Step(t))

NextMisuse == \E t \in Threads : Step(t) \/ MisuseUnlock(t)

\* threads that may also call Unlock without holding
MisuseSpec == Init /\ [][NextMisuse]_vars

StepAtomic(t) ==
    \/ CallLock(t) \/ LockAtomic(t) \/ LockRecv(t)
    \/ CsRead(t) \/ CsWrite(t)
    \/ CallUnlock(t) \/ UnlockAtomic(t) \/ UnlockSend(t)

NextAtomic == \E t \in Threads : StepAtomic(t)

\* the same clients as in Spec, the flag tested and written atomically
AtomicSpec == Init /\ [][NextAtomic]_vars

TypeOK ==
    /\ locked \in BOOLEAN
    /\ wait \in 0..WaitCap
    /\ pc \in [Threads -> AllPcs]
    /\ calls \in 0..MaxCalls
    /\ nmisuse \in 0..MaxMisuse
    /\ counter \in 0..MaxCalls
    /\ tmp \in [Threads -> 0..MaxCalls]
    /\ misuse \in [Threads -> BOOLEAN]
    /\ crashed \in BOOLEAN
    /\ serial \in BOOLEAN
    /\ ahead \in [Threads -> SUBSET Threads]
    /\ woken \in [Threads -> BOOLEAN]

\* ---- what the claims speak about ----
\* t is between the return of its Lock and the start of its Unlock
InCS(t) == pc[t] \in CsPcs
InLock(t) == pc[t] \in LockPcs
InUnlock(t) == pc[t] \in UnlockPcs
Panicked(t) == pc[t] = "panic"

\* C1: mutual exclusion -- in every reachable state at most one thread is
\* between the return of its Lock and the start of its Unlock.
C1_MutualExclusion ==
    \A s, t \in Threads : (InCS(s) /\ InCS(t)) => s = t

\* C2: every write locked = true that Lock performs happens in a state where
\* locked is false immediately before the write.
C2_SetOnlyFromFree ==
    [][\A t \in Threads : LockSet(t) => ~locked]_vars

\* C3: no double-acquire -- locked is true in every state from the return of
\* t's Lock until t begins its own Unlock.
C3_HeldWhileInCS ==
    \A t \in Threads : InCS(t) => locked

\* C4: when every thread calls Unlock only after its own returned Lock, no
\* Unlock call reaches the panic.
C4_NoPanicWithoutMisuse ==
    \A t \in Threads : ~Panicked(t)
\* C5: an Unlock call made by a thread that does not hold the lock always ends
\* in the panic and never frees the lock, also while another thread holds it.
C5_MisuseAlwaysCaught ==
    \A t \in Threads : misuse[t] => pc[t] \in {"U_check", "panic"}

\* C6: when Unlock reads locked = false at its check it panics, and that step
\* leaves locked false and the wake channel's occupancy as it was.
C6_UnlockFreeFaultsNoTransition ==
    [][\A t \in Threads :
          (pc[t] = "U_check" /\ ~locked /\ pc'[t] # pc[t])
              => (pc'[t] = "panic" /\ locked' = FALSE /\ wait' = wait
                  /\ nSignal' = nSignal)]_vars

\* Unlock on a freshly constructed, never-acquired lock has panicked
C6_Witness ==
    \E t \in Threads :
        /\ Panicked(t) /\ misuse[t]
        /\ calls = 0 /\ nSignal = 0
        /\ ~locked /\ wait = 0

\* C7: the wake channel holds 0 or 1 signals in every reachable state, and
\* once some Unlock has signalled and no signal was ever received (k >= 1
\* releases with no waiter) it holds exactly one.
C7_WakeQueueBounded ==
    /\ wait \in {0, 1}
    /\ (nSignal >= 1 /\ nRecv = 0) => wait = 1

\* two or more releases happened, nobody ever waited, one signal is pending
C7_Witness ==
    /\ nSignal >= 2 /\ nRecv = 0 /\ wait = 1
    /\ \A t \in Threads : pc[t] = "idle"

\* C8: while the program runs, a thread inside Unlock always has an enabled
\* step, whatever the wake channel holds and wherever the other threads are;
\* and under weak fairness every started Unlock call ends: it returns, it
\* panics, or a panic has stopped the program.
C8_UnlockNeverBlocks ==
    /\ [](\A t \in Threads : (InUnlock(t) /\ ~crashed) => ENABLED UnlockStep(t))
    /\ \A t \in Threads : InUnlock(t) ~> (~InUnlock(t) \/ crashed)

\* a thread is at its signal attempt while the wake channel is already full
C8_Witness ==
    \E t \in Threads : pc[t] = "U_send" /\ wait = WaitCap

\* C9: under weak fairness on each thread's steps, every Lock call
\* eventually returns.
C9_LockEventuallyReturns ==
    \A t \in Threads : InLock(t) ~> InCS(t)

\* C10: whenever all threads have completed their rounds, the counter equals
\* the number of Lock; increment; Unlock rounds that were run.
C10_NoLostUpdate ==
    (\A t \in Threads : pc[t] = "idle") => counter = calls

\* C11: the lock starts Free with an empty wake channel, and as long as the
\* calls do not overlap (one thread alternating Lock and Unlock) no Lock ever
\* waits on the wake channel, none reads locked = true at its check (also with
\* a stale signal pending), no Unlock panics, and locked is false after each
\* Unlock.
C11_SingleThreadReusable ==
    /\ (calls = 0 /\ nmisuse = 0) => (~locked /\ wait = 0)
    /\ serial =>
          /\ \A t \in Threads : pc[t] \notin {"L_recv", "panic"}
          /\ \A t \in Threads : pc[t] = "L_check" => ~locked
          /\ (\A t \in Threads : pc[t] = "idle") => ~locked
          /\ nRecv = 0

\* a later Lock of a run without overlap has passed its first check while a
\* stale signal is pending
C11_Witness ==
    /\ serial /\ calls >= 2 /\ wait = 1 /\ nRecv = 0
    /\ \E t \in Threads : pc[t] = "L_set" /\ OthersIdle(t)
\* C12: a signal is received at most once -- the receives that went through,
\* plus the signal still buffered, never exceed the Unlock calls that have
\* performed their signal step.
C12_OneReleaseOneWake ==
    nRecv + wait <= nSignal

\* one release, two waiters: one of them received the signal, the other is
\* still blocked at the receive
C12_Witness ==
    /\ nSignal = 1 /\ nRecv = 1 /\ wait = 0
    /\ \E s, t \in Threads :
          s # t /\ pc[s] = "L_recv" /\ pc[t] \in {"L_check", "L_set", "L_recv"}
\* C13: a wake signal is never a grant -- a thread that passes the receive
\* goes back to the read of locked; a thread that reads locked = true goes to
\* the receive; and a thread reaches the write locked = true (after which Lock
\* returns) only from its own read of locked = false.
C13_SignalIsNotAGrant ==
    [][\A t \in Threads :
          /\ (pc[t] = "L_recv" /\ pc'[t] # pc[t]) => pc'[t] = "L_check"
          /\ (pc[t] = "L_check" /\ locked /\ pc'[t] # pc[t]) => pc'[t] = "L_recv"
          /\ (pc'[t] = "L_set" /\ pc[t] # "L_set") => (pc[t] = "L_check" /\ ~locked)
          /\ (pc'[t] \in CsPcs /\ pc[t] \notin CsPcs) => pc[t] = "L_set"]_vars

\* a signal was received, yet the lock is held by another thread and a waiter
\* is blocked at the receive again
C13_Witness ==
    /\ calls = 3 /\ nSignal = 1 /\ nRecv = 1 /\ wait = 0 /\ locked
    /\ \E a, b \in Threads :
          /\ a # b /\ InCS(a) /\ pc[b] = "L_recv"
          /\ \A c \in Threads \ {a, b} : pc[c] = "idle"
\* C14: a successful Unlock writes locked = false before its signal attempt
\* and sends nothing in that step; the signal step is reached only from that
\* write, never changes locked, and leaves exactly one signal in the wake
\* channel: sent if the channel was empty, discarded if it was full.
C14_UnlockOrderAndEffect ==
    [][\A t \in Threads :
          /\ (pc[t] = "U_set" /\ pc'[t] # pc[t])
                => (pc'[t] = "U_send" /\ locked' = FALSE
                    /\ wait' = wait /\ nSignal' = nSignal)
          /\ (pc'[t] = "U_send" /\ pc[t] # "U_send") => pc[t] = "U_set"
          /\ (pc[t] = "U_send" /\ pc'[t] # pc[t])
                => (locked' = locked /\ nSignal' = nSignal + 1 /\ wait' = 1
                    /\ (wait = 0 => wait' = wait + 1)
                    /\ (wait = 1 => wait' = wait))]_vars

\* two Unlock calls have signalled, the first signal was received by a
\* waiter, the second is pending and the lock is free
C14_Witness ==
    /\ nSignal = 2 /\ nRecv = 1 /\ wait = 1 /\ ~locked
    /\ \A t \in Threads : pc[t] = "idle"
\* C15: waiters are not served in order of arrival -- a thread that called
\* Lock after other threads had blocked, and reads locked = false, goes on to
\* the write and returns from Lock while those threads are still waiting;
\* nothing in Lock makes it yield to them.  (The barging execution itself is
\* the state C15_Witness.)
C15_NoFifoAmongWaiters ==
    [][\A t \in Threads :
          /\ (pc[t] = "L_check" /\ ~locked /\ ahead[t] # {} /\ pc'[t] # pc[t])
                => pc'[t] = "L_set"
          /\ (pc[t] = "L_set" /\ ahead[t] # {} /\ pc'[t] # pc[t])
                => (pc'[t] \in CsPcs /\ \A u \in ahead[t] : pc'[u] \in LockPcs)]_vars

\* three threads: a has completed Lock; Unlock, b blocked at the receive
\* before c called Lock and is still inside Lock, and c's Lock has returned
C15_Witness ==
    /\ calls = 3 /\ nSignal = 1
    /\ \E a, b, c \in Threads :
          /\ a # b /\ b # c /\ a # c
          /\ pc[a] = "idle"
          /\ b \in ahead[c] /\ InLock(b)
          /\ InCS(c)
\* C16: the effect of Lock on the shared state -- its read of locked changes
\* nothing; after reading false it changes only locked, to true, and leaves
\* the wake channel as it was, pending signal included; it changes the wake
\* channel only at the receive, by removing exactly one signal, and that step
\* leaves locked unchanged.  No step of Lock touches the counter.
C16_LockFrame ==
    [][\A t \in Threads :
          /\ (pc[t] = "L_check" /\ pc'[t] # pc[t])
                => (locked' = locked /\ wait' = wait /\ nRecv' = nRecv)
          /\ (pc[t] = "L_set" /\ pc'[t] # pc[t])
                => (locked' = TRUE /\ wait' = wait /\ nRecv' = nRecv)
          /\ (pc[t] = "L_recv" /\ pc'[t] # pc[t])
                => (wait >= 1 /\ wait' = wait - 1 /\ nRecv' = nRecv + 1
                    /\ locked' = locked)
          /\ (pc[t] \in LockPcs /\ pc'[t] # pc[t])
                => (counter' = counter /\ nSignal' = nSignal)]_vars

\* a Lock has just returned and the signal that was pending is still there
C16_Witness ==
    /\ locked /\ wait = 1 /\ nSignal >= 1 /\ nRecv = 0
    /\ \E t \in Threads : pc[t] = "cs_read"
\* C17: when the test and the write of the flag are one atomic step in Lock
\* and in Unlock, and every thread calls Unlock only after its own Lock
\* returned, at most one thread is in its critical section and no Unlock
\* panics, stale signals in the wake channel notwithstanding.
C17_AtomicFlagIsSound ==
    /\ \A s, t \in Threads : (InCS(s) /\ InCS(t)) => s = t
    /\ \A t \in Threads : ~Panicked(t)

\* a waiter took a stale signal while the lock was held, found the flag set
\* and is blocked again; the holder is in its critical section
C17_Witness ==
    /\ nSignal = 1 /\ nRecv = 1 /\ wait = 0 /\ locked
    /\ \E s, t \in Threads : s # t /\ InCS(s) /\ pc[t] = "L_recv"
\* C18: no wake-up is lost -- whenever locked is false and some thread is
\* blocked at the receive in Lock, the wake channel holds a signal, or some
\* thread is in Unlock between its write locked = false and its signal
\* attempt, or some thread has received a signal and not yet re-read locked,
\* or some thread in Lock has read locked = false and not yet written it.
C18_NoLostWakeUp ==
    (~locked /\ \E t \in Threads : pc[t] = "L_recv")
        => \/ wait >= 1
           \/ \E u \in Threads : pc[u] = "U_send"
           \/ \E u \in Threads : pc[u] = "L_check" /\ woken[u]
           \/ \E u \in Threads : pc[u] = "L_set"

\* the lock is free, a waiter is blocked and the channel is empty: the one
\* signal was taken by another waiter that has not yet re-read the flag
C18_Witness ==
    /\ ~locked /\ wait = 0
    /\ \E t, u \in Threads :
          /\ t # u /\ pc[t] = "L_recv"
          /\ pc[u] = "L_check" /\ woken[u]
    /\ \A v \in Threads : pc[v] \notin {"U_send", "L_set"}
====
